---- MODULE Spec2Model ----
(***************************************************************************)
(* Model of the multi-agent orchestrator (agents/multi_agent_system.py),   *)
(* the specialist caller (agents/base_agent.py) and the presentation code  *)
(* that reads the orchestrator's result (app.py).                          *)
(*                                                                         *)
(* Texts are TLA+ strings, built with \o exactly where the code builds     *)
(* them with f-strings; the query is a sequence of characters so that      *)
(* str.strip() is computed, not assumed.  The external capabilities        *)
(* (document search, text generation) are nondeterministic outcomes.       *)
(***************************************************************************)
EXTENDS Integers, Sequences, FiniteSets, TLC

VARIABLES
    query,          \* the argument of MultiAgentSystem.invoke
    pc,             \* position of the invocation / the graph's next node
    state,          \* the AgentState held by the graph
    step,           \* super-steps the graph has executed
    running,        \* the role whose specialist call is in progress, or "none"
    calls,          \* per role: number of specialist calls made
    outcome,        \* per role: what its most recent call ended with
    searches,       \* number of document searches performed
    genCalls,       \* number of generation-capability calls made by specialists
    consolidations, \* number of times _create_final_response ran
    synthCalls,     \* number of synthesis prompts submitted to generation
    synthErr,       \* <<>> or <<message>> of the exception caught in consolidation
    result,         \* the mapping invoke returned
    raised,         \* TRUE iff an exception left invoke
    workflowFailed, \* TRUE iff graph.invoke raised
    shown           \* what the presentation layer displays

vars == <<query, pc, state, step, running, calls, outcome, searches, genCalls,
          consolidations, synthCalls, synthErr, result, raised, workflowFailed,
          shown>>

(* Free-text chunking: DocumentProcessor._chunk_text *)
VARIABLES
    cpc,            \* "off", "loop" (inside the while loop) or "done"
    ctext,          \* the text argument, a sequence of characters
    csize,          \* the chunk_size argument
    coverlap,       \* the overlap argument
    cstart,         \* the local variable start
    cchunks         \* the local list chunks

cvars == <<cpc, ctext, csize, coverlap, cstart, cchunks>>

\* the chunking component is not in use
ChunkOff ==
    /\ cpc = "off" /\ ctext = <<>> /\ csize = 0 /\ coverlap = 0
    /\ cstart = 0 /\ cchunks = <<>>

(* Embedding gateway: DocumentProcessor.get_bedrock_embedding *)
VARIABLES
    gpc,            \* "off", "idle", "loop" (in the retry loop), "fallback", "done"
    gtext,          \* the text argument
    gattempt,       \* the loop variable attempt
    glog,           \* the outcomes of the remote attempts of this call, in order
    gwaits,         \* the backoff delays slept before the retries of this call
    glocal,         \* "none", or the outcome of the local model: "ok" / "fail"
    gvec,           \* the vector the call returned
    gdims           \* the dimensions of all vectors returned so far

gvars == <<gpc, gtext, gattempt, glog, gwaits, glocal, gvec, gdims>>

\* the absent vector
NoVec == [dim |-> 0, origin |-> "none", text |-> ""]

\* the gateway is not in use
GateOff ==
    /\ gpc = "off" /\ gtext = "" /\ gattempt = 0 /\ glog = <<>> /\ gwaits = <<>>
    /\ glocal = "none" /\ gvec = NoVec /\ gdims = {}

\* the variables of the components other than the orchestrator
(* Vector store: DocumentProcessor.create_vector_store, _save_vector_store,
   load_vector_store, search_documents, clear_vector_store, delete_local_store *)
VARIABLES
    sindex,         \* self.index: NoIndex (None) or [d, vecs], slot i+1 = vector i
    sdocs,          \* self.documents
    disk,           \* the storage directory and its three artifacts
    slast,          \* the last operation on the object and what it returned
    rt              \* progress of a build / clear / load / search round trip

svars == <<sindex, sdocs, disk, slast, rt>>

\* self.index = None
NoIndex == [d |-> 0, vecs |-> <<>>]

\* no operation has been called yet
NoOp ==
    [op |-> "none", ret |-> "none", batch |-> <<>>, vecs |-> <<>>,
     save |-> "no", q |-> "", k |-> 0, attempts |-> 0, waits |-> <<>>,
     results |-> <<>>, before |-> <<>>]

\* no round trip is in progress
NoTrip == [stage |-> "none", batch |-> <<>>]

\* a removal that leaves the index artifact behind
EmptyDisk_keeps_index(exists) ==
    [dir |-> TRUE,
     index_file |-> [exists |-> TRUE, index |-> NoIndex],
     documents_file |-> [exists |-> FALSE, documents |-> <<>>],
     metadata_file |-> [exists |-> FALSE, total_documents |-> 0]]

\* the storage directory without artifacts (exists = FALSE: removed)
EmptyDisk(exists) ==
    [dir |-> exists,
     index_file |-> [exists |-> FALSE, index |-> NoIndex],
     documents_file |-> [exists |-> FALSE, documents |-> <<>>],
     metadata_file |-> [exists |-> FALSE, total_documents |-> 0]]

\* the vector store component is not in use
StoreOff ==
    /\ sindex = NoIndex /\ sdocs = <<>> /\ disk = EmptyDisk(FALSE)
    /\ slast = [NoOp EXCEPT !.op = "off"] /\ rt = NoTrip

(* Tabular ingestion: DocumentProcessor.load_csv_documents *)
VARIABLE table      \* one call of load_csv_documents, see TableIdle

tvars == <<table>>

\* df = None
NoTable == [parsed |-> FALSE, columns |-> <<>>, rows |-> <<>>, dup |-> FALSE]

\* no file has been given
NoFile == [kind |-> "none", columns |-> <<>>, rows |-> <<>>, dup |-> FALSE,
           chars |-> 0]

\* the state of a call of load_csv_documents, before any call
TableIdle ==
    [pc |-> "off",          \* "off", "start", "loop" (strategy loop), "after", "done"
     file |-> NoFile,       \* the file at csv_path
     i |-> 0,               \* the loop variable i
     tried |-> <<>>,        \* the strategies tried so far, with how each ended
     df |-> NoTable,        \* the local variable df
     docs |-> <<>>]         \* the returned list of records

tpc == table.pc
tfile == table.file
ti == table.i
ttried == table.tried
tdf == table.df
tdocs == table.docs

\* tabular ingestion is not in use
TableOff == table = TableIdle

(* Ingestion of the data directory: StreamlitApp.initialize_system, step 3 *)
VARIABLE ingest     \* one run of step 3, see IngestIdle

ivars == <<ingest>>

\* the state of step 3, before it runs
IngestIdle ==
    [pc |-> "off",          \* "off", "start", "pdfs", "csvs", "build", "done"
     dir |-> FALSE,         \* os.path.exists(data_dir)
     files |-> <<>>,        \* os.listdir(data_dir): the files with what reading them gives
     next |-> 0,            \* the position in the listing the running loop is at
     pdf_docs |-> <<>>,     \* pdf_docs
     csv_docs |-> <<>>,     \* csv_docs
     csv_loaded |-> FALSE,  \* csv_loaded
     batch |-> <<>>,        \* the list passed to create_vector_store
     ret |-> "none"]        \* "none", or how step 3 ended

ipc == ingest.pc
idir == ingest.dir
ifiles == ingest.files
inext == ingest.next
ipdf_docs == ingest.pdf_docs
icsv_docs == ingest.csv_docs
icsv_loaded == ingest.csv_loaded
ibatch == ingest.batch
iret == ingest.ret

\* the ingestion of the data directory is not in use
IngestOff == ingest = IngestIdle

(* The page: main, StreamlitApp.__init__, run, render_sidebar and
   render_main_content, once per render *)
VARIABLE page       \* one browser session, see PageIdle

pvars == <<page>>

\* StreamlitApp.__init__
NewApp == [document_processor |-> FALSE, multi_agent_system |-> FALSE,
           initialized |-> FALSE]

\* the session state of a new browser session
NewSession == [user_query |-> "unset", system_initialized |-> "unset"]

\* the state of a browser session that has not opened the page
PageIdle ==
    [pc |-> "off",          \* "off", "idle", "sidebar", "init", "main"
     app |-> NewApp,        \* the fields of the StreamlitApp object of this render
     session |-> NewSession,    \* st.session_state, which lasts across renders
     shown |-> "none",      \* what render_main_content has shown in this render
     succeeded |-> FALSE,   \* initialize_system has returned True
     renders |-> 0]         \* the number of renders so far

ppc == page.pc
papp == page.app
psession == page.session
pshown == page.shown
psucceeded == page.succeeded
prenders == page.renders

\* the page is not in use
PageOff == page = PageIdle

nonOrchVars == <<cvars, gvars, svars, tvars, ivars, pvars>>

allvars == <<vars, nonOrchVars>>

-----------------------------------------------------------------------------
(* Bounds and input domains *)

MaxQueryLen == 2

Chars == {" ", "a"}

ErrMsgs == {"", "timeout"}

GenTexts == {"", "advice"}

StrOfLen(n) == [1..n -> Chars]

Queries ==
    {[kind |-> "none", chars |-> <<>>]} \cup
    {[kind |-> "str", chars |-> s] : s \in UNION {StrOfLen(n) : n \in 0..MaxQueryLen}}

EmptyMap == [k \in {} |-> ""]

-----------------------------------------------------------------------------
(* Python helpers *)

RECURSIVE lstrip(_)
lstrip(s) == IF s # <<>> /\ Head(s) = " " THEN lstrip(Tail(s)) ELSE s

RECURSIVE rstrip(_)
rstrip(s) ==
    IF s # <<>> /\ s[Len(s)] = " " THEN rstrip(SubSeq(s, 1, Len(s) - 1)) ELSE s

strip(s) == rstrip(lstrip(s))

\* dict update: the graph writes the keys a node returned over the state
Merge(old, upd) ==
    [k \in DOMAIN old \cup DOMAIN upd |-> IF k \in DOMAIN upd THEN upd[k] ELSE old[k]]

\* dict.get(key, default)
Get(d, k, default) == IF k \in DOMAIN d THEN d[k] ELSE default

-----------------------------------------------------------------------------
(* Roles and the AgentState *)

Roles == <<"maintenance_scheduler", "field_support", "workload_manager">>

RoleSet == {Roles[i] : i \in 1..Len(Roles)}

AgentState(q) ==
    [query |-> q,
     maintenance_response |-> "",
     field_support_response |-> "",
     workload_response |-> "",
     final_response |-> "",
     all_responses |-> <<>>]

\* the state key each node writes
StateKey(r) ==
    CASE r = "maintenance_scheduler" -> "maintenance_response"
      [] r = "field_support" -> "field_support_response"
      [] r = "workload_manager" -> "workload_response"

-----------------------------------------------------------------------------
(* Specialist caller: BaseAgent *)

\* The outcomes of one specialist call that the external capabilities decide:
\* retrieval (get_context) either returns or raises; the generation service
\* returns a body with a content text (possibly empty), a body without
\* content, or raises.
SpecialistOutcomes ==
    {[retrieval |-> "raise", gen |-> "none", text |-> "", msg |-> e] : e \in ErrMsgs}
    \cup {[retrieval |-> "ok", gen |-> "content", text |-> t, msg |-> ""] : t \in GenTexts}
    \cup {[retrieval |-> "ok", gen |-> "no_content", text |-> "", msg |-> ""]}
    \cup {[retrieval |-> "ok", gen |-> "error", text |-> "", msg |-> e] : e \in ErrMsgs}

\* BaseAgent.invoke_nova_pro: never raises, every exception becomes a text
invoke_nova_pro(o) ==
    CASE o.gen = "content" -> o.text
      [] o.gen = "no_content" -> "No response generated."
      [] o.gen = "error" -> "Error invoking Nova Pro: " \o o.msg

\* BaseAgent.invoke: get_context is not guarded, so its exception propagates
agent_invoke(o) ==
    IF o.retrieval = "raise"
    THEN [raised |-> TRUE, msg |-> o.msg, value |-> ""]
    ELSE [raised |-> FALSE, msg |-> "", value |-> invoke_nova_pro(o)]

node_error_text_bare(e) == e

\* the except branch of _invoke_<role>
node_error_text(e) == "Error: " \o e

\* _invoke_maintenance_scheduler / _invoke_field_support / _invoke_workload_manager:
\* the partial state the node returns
invoke_agent_node(r, o) ==
    LET res == agent_invoke(o) IN
    IF res.raised
    THEN (StateKey(r) :> node_error_text(res.msg))
    ELSE (StateKey(r) :> res.value)

OutcomeKind(o) ==
    CASE o.retrieval = "raise" -> "raised"
      [] o.gen = "error" -> "gen_error"
      [] o.gen = "content" /\ o.text = "" -> "empty"
      [] OTHER -> "text"

-----------------------------------------------------------------------------
(* Orchestrator *)

route_fixed_order_broken(s) ==
    IF Get(s, "field_support_response", "") = "" THEN "field_support"
    ELSE IF Get(s, "maintenance_response", "") = "" THEN "maintenance_scheduler"
    ELSE IF Get(s, "workload_response", "") = "" THEN "workload_manager"
    ELSE "final"

\* _route_to_agents: `not state.get(key)` is true of a missing key and of ""
route_to_agents(s) ==
    IF Get(s, "maintenance_response", "") = "" THEN "maintenance_scheduler"
    ELSE IF Get(s, "field_support_response", "") = "" THEN "field_support"
    ELSE IF Get(s, "workload_response", "") = "" THEN "workload_manager"
    ELSE "final"

\* the mapping of add_conditional_edges
EdgeTarget(route) == IF route = "final" THEN "END" ELSE route

\* attributes BaseAgent.__init__ sets on an agent object
AgentAttributes == {"name", "document_processor", "bedrock_runtime", "system_prompt"}

\* str(e) of the AttributeError raised by a missing attribute
AttributeErrorMsg == "'MaintenanceSchedulerAgent' object has no attribute 'aws_models'"

\* AWSModels.invoke_nova_pro: the text of the body ('' by default), or the
\* exception as a text
AWSModelsTexts == GenTexts \cup {"Error invoking Nova Pro: " \o e : e \in ErrMsgs}

final_response_fallback_blank(e) == ""

\* the except branch of _create_final_response
final_response_fallback(e) == "Error creating final response: " \o e

\* _create_final_response: the attribute lookup agents[...].aws_models comes
\* before the call; when it raises, nothing is submitted
create_final_response(responses) ==
    IF "aws_models" \in AgentAttributes
    THEN {[text |-> t, submitted |-> 1, err |-> <<>>] : t \in AWSModelsTexts}
    ELSE {[text |-> final_response_fallback(AttributeErrorMsg),
           submitted |-> 0, err |-> <<AttributeErrorMsg>>]}

\* _orchestrate_response: the update the node returns, with what it did
orchestrate_response(s) ==
    LET m == Get(s, "maintenance_response", "")
        f == Get(s, "field_support_response", "")
        w == Get(s, "workload_response", "")
    IN  IF m # "" /\ f # "" /\ w # ""
        THEN {[update |-> ("final_response" :> c.text), consolidated |-> 1,
               submitted |-> c.submitted, err |-> c.err] :
                 c \in create_final_response(
                         [maintenance_scheduler |-> m, field_support |-> f,
                          workload_manager |-> w, query |-> Get(s, "query", <<>>)])}
        ELSE {[update |-> s, consolidated |-> 0, submitted |-> 0, err |-> <<>>]}

query_is_empty_nostrip(q) == q.kind = "none" \/ Len(q.chars) = 0

\* `not query or not query.strip()`
query_is_empty(q) ==
    q.kind = "none" \/ Len(q.chars) = 0 \/ Len(strip(q.chars)) = 0

invoke_reraise(e) == [result |-> EmptyMap, raised |-> TRUE]

\* the except branch of invoke
invoke_except(e) ==
    [result |-> [error |-> "Multi-agent system invocation failed: " \o e],
     raised |-> FALSE]

\* super-steps graph.invoke executes before it raises GraphRecursionError
\* (invoke passes no config, so the graph library's default applies)
RecursionLimit == 25

RecursionErrorMsg == "Recursion limit of 25 reached without hitting a stop condition."

-----------------------------------------------------------------------------
(* Presentation layer: StreamlitApp.process_user_query *)

\* the key process_user_query reads for a role
PresentationKey(r) == r \o "_response"

\* what process_user_query puts on the page for a returned mapping
process_user_query(response) ==
    IF "error" \in DOMAIN response
    THEN [error |-> response["error"]]
    ELSE [maintenance_scheduler |->
              Get(response, PresentationKey("maintenance_scheduler"), "No response"),
          field_support |->
              Get(response, PresentationKey("field_support"), "No response"),
          workload_manager |->
              Get(response, PresentationKey("workload_manager"), "No response"),
          final_response |->
              Get(response, "final_response", "No consolidated response")]

-----------------------------------------------------------------------------
(* State machine of one invocation *)

Init ==
    /\ query \in Queries
    /\ pc = "idle"
    /\ state = EmptyMap
    /\ step = 0
    /\ running = "none"
    /\ calls = [r \in RoleSet |-> 0]
    /\ outcome = [r \in RoleSet |-> "none"]
    /\ searches = 0
    /\ genCalls = 0
    /\ consolidations = 0
    /\ synthCalls = 0
    /\ synthErr = <<>>
    /\ result = EmptyMap
    /\ raised = FALSE
    /\ workflowFailed = FALSE
    /\ shown = EmptyMap
    /\ ChunkOff
    /\ GateOff
    /\ StoreOff
    /\ TableOff
    /\ IngestOff
    /\ PageOff

\* MultiAgentSystem.invoke up to the call of graph.invoke
Invoke ==
    /\ UNCHANGED nonOrchVars
    /\ pc = "idle"
    /\ IF query_is_empty(query)
       THEN /\ result' = [error |-> "Query cannot be empty"]
            /\ pc' = "returned"
            /\ state' = state
       ELSE /\ state' = AgentState(strip(query.chars))
            /\ pc' = "orchestrator"
            /\ result' = result
    /\ UNCHANGED <<query, step, running, calls, outcome, searches, genCalls,
                   consolidations, synthCalls, synthErr, raised, workflowFailed,
                   shown>>

\* the node "orchestrator" and the conditional edge that follows it
OrchestratorNode ==
    /\ UNCHANGED nonOrchVars
    /\ pc = "orchestrator"
    /\ step < RecursionLimit
    /\ \E out \in orchestrate_response(state) :
         /\ state' = Merge(state, out.update)
         /\ consolidations' = consolidations + out.consolidated
         /\ synthCalls' = synthCalls + out.submitted
         /\ synthErr' = IF out.consolidated = 1 THEN out.err ELSE synthErr
    /\ pc' = EdgeTarget(route_to_agents(state'))
    /\ step' = step + 1
    /\ UNCHANGED <<query, running, calls, outcome, searches, genCalls, result,
                   raised, workflowFailed, shown>>

\* a specialist node begins: the agent's invoke is called
StartCall(r) ==
    /\ UNCHANGED nonOrchVars
    /\ pc = r
    /\ running = "none"
    /\ step < RecursionLimit
    /\ running' = r
    /\ calls' = [calls EXCEPT ![r] = @ + 1]
    /\ UNCHANGED <<query, pc, state, step, outcome, searches, genCalls,
                   consolidations, synthCalls, synthErr, result, raised,
                   workflowFailed, shown>>

\* the specialist node returns its partial state; the edge leads back to
\* the orchestrator
ReturnCall(r) ==
    /\ UNCHANGED nonOrchVars
    /\ running = r
    /\ \E o \in SpecialistOutcomes :
         /\ state' = Merge(state, invoke_agent_node(r, o))
         /\ outcome' = [outcome EXCEPT ![r] = OutcomeKind(o)]
         /\ genCalls' = genCalls + (IF o.retrieval = "ok" THEN 1 ELSE 0)
    /\ searches' = searches + 1
    /\ running' = "none"
    /\ pc' = "orchestrator"
    /\ step' = step + 1
    /\ UNCHANGED <<query, calls, consolidations, synthCalls, synthErr, result,
                   raised, workflowFailed, shown>>

\* graph.invoke returns the final state; invoke returns dict(result)
GraphEnd ==
    /\ UNCHANGED nonOrchVars
    /\ pc = "END"
    /\ result' = state
    /\ pc' = "returned"
    /\ UNCHANGED <<query, state, step, running, calls, outcome, searches, genCalls,
                   consolidations, synthCalls, synthErr, raised, workflowFailed,
                   shown>>

\* graph.invoke raises GraphRecursionError; invoke's except branch handles it
GraphRecursionError ==
    /\ UNCHANGED nonOrchVars
    /\ pc \in RoleSet \cup {"orchestrator"}
    /\ running = "none"
    /\ step = RecursionLimit
    /\ workflowFailed' = TRUE
    /\ LET h == invoke_except(RecursionErrorMsg) IN
         /\ result' = h.result
         /\ raised' = h.raised
    /\ pc' = "returned"
    /\ UNCHANGED <<query, state, step, running, calls, outcome, searches, genCalls,
                   consolidations, synthCalls, synthErr, shown>>

\* the presentation layer displays the returned mapping
Display ==
    /\ UNCHANGED nonOrchVars
    /\ pc = "returned"
    /\ ~raised
    /\ shown' = process_user_query(result)
    /\ pc' = "displayed"
    /\ UNCHANGED <<query, state, step, running, calls, outcome, searches, genCalls,
                   consolidations, synthCalls, synthErr, result, raised,
                   workflowFailed>>

Next ==
    \/ Invoke
    \/ OrchestratorNode
    \/ \E r \in RoleSet : StartCall(r)
    \/ \E r \in RoleSet : ReturnCall(r)
    \/ GraphEnd
    \/ GraphRecursionError
    \/ Display

Spec == Init /\ [][Next]_allvars

-----------------------------------------------------------------------------
(* Properties of the fan-out orchestrator *)

Returned == pc \in {"returned", "displayed"}

\* the query is a string that is non-empty after trimming
NonEmptyQuery == query.kind = "str" /\ strip(query.chars) # <<>>

\* the query is None, empty or whitespace-only
BlankQuery == query.kind = "none" \/ strip(query.chars) = <<>>

ResultKeys == {StateKey(r) : r \in RoleSet} \cup {"final_response"}

\* C1: for every query that is non-empty after trimming and every outcome of
\* the specialist calls, the mapping invoke returns holds a non-empty response
\* for each of the three roles and a final_response text.
C1_AllRolesAnswered ==
    (Returned /\ NonEmptyQuery) =>
        /\ ResultKeys \subseteq DOMAIN result
        /\ \A r \in RoleSet : result[StateKey(r)] # ""

\* C2: every invocation with a non-empty query ends in the terminal state
\* Done: when invoke has returned, the workflow has reached END and was not
\* cut off while routing back to a specialist.
C2_DoneReached ==
    (Returned /\ NonEmptyQuery) => ~workflowFailed

\* C3: for a None, empty or whitespace-only query invoke returns the error
\* "Query cannot be empty", the graph is never entered, and no specialist
\* call, search or generation call is made.
C3_BlankQueryShortCircuits ==
    BlankQuery =>
        /\ pc \in {"idle", "returned", "displayed"}
        /\ Returned => result = [error |-> "Query cannot be empty"]
        /\ state = EmptyMap /\ step = 0
        /\ \A r \in RoleSet : calls[r] = 0
        /\ searches = 0 /\ genCalls = 0 /\ consolidations = 0 /\ synthCalls = 0

C3_Witness ==
    /\ Returned
    /\ query.kind = "str" /\ Len(query.chars) > 0 /\ strip(query.chars) = <<>>
    /\ result = [error |-> "Query cannot be empty"]

ErrorTexts ==
    {node_error_text(e) : e \in ErrMsgs}
    \cup {"Error invoking Nova Pro: " \o e : e \in ErrMsgs}

Failed(r) == outcome[r] \in {"raised", "gen_error"}

\* no specialist call of the invocation has returned an empty text
NoEmptyReturn == \A s \in RoleSet : calls[s] <= 1 /\ outcome[s] # "empty"

\* C5: when a role's specialist call fails (an exception in retrieval or in
\* generation), the role's stored response is a non-empty error text, no
\* exception leaves the orchestrator, and the failure stops neither the other
\* roles' calls nor the consolidation: in an invocation where no call returned
\* an empty text, every role has been called and the consolidation step has
\* run by the time invoke returns.
C5_FailureContained ==
    \A r \in RoleSet :
        Failed(r) =>
            /\ state[StateKey(r)] # ""
            /\ state[StateKey(r)] \in ErrorTexts
            /\ ~raised
            /\ (Returned /\ NoEmptyReturn) =>
                   /\ ~workflowFailed
                   /\ \A s \in RoleSet : calls[s] >= 1
                   /\ consolidations = 1
                   /\ result[StateKey(r)] = state[StateKey(r)]

C5_Witness ==
    /\ Returned
    /\ outcome["maintenance_scheduler"] = "raised"
    /\ outcome["field_support"] = "text"
    /\ outcome["workload_manager"] = "gen_error"
    /\ consolidations = 1

\* C6: in every invocation that reaches Consolidating the synthesis prompt is
\* submitted to the generation capability.
C6_SynthesisSubmitted ==
    consolidations > 0 => synthCalls > 0

FallbackPrefixes == {"", "Error creating final response: "}

\* s consists of a known prefix followed by the text e
ContainsError(s, e) == \E p \in FallbackPrefixes : s = p \o e

\* C7: when the consolidation step fails it raises nothing and final_response
\* is a non-empty string that contains the text of the error; final_response
\* is never empty once Consolidating has been reached.
C7_FallbackOnFailure ==
    consolidations > 0 =>
        /\ ~raised
        /\ state["final_response"] # ""
        /\ synthErr # <<>> => ContainsError(state["final_response"], synthErr[1])
        /\ (Returned /\ ~workflowFailed) =>
               result["final_response"] = state["final_response"]

C7_Witness ==
    /\ Returned
    /\ synthErr # <<>>
    /\ result["final_response"] = "Error creating final response: " \o synthErr[1]

\* C8: invoke never raises; it returns a mapping, and when the workflow
\* itself failed the mapping has the key error and no other key.
C8_InvokeTotal ==
    /\ ~raised
    /\ Returned => DOMAIN result # {}
    /\ (Returned /\ workflowFailed) => DOMAIN result = {"error"}

C8_Witness ==
    /\ Returned
    /\ workflowFailed
    /\ query.kind = "str"
    /\ DOMAIN result = {"error"}

\* C9: for every successful invocation the text the presentation layer shows
\* for a role is the text the orchestrator's result holds for that role.
C9_ShownIsProduced ==
    (pc = "displayed" /\ "error" \notin DOMAIN result) =>
        \A r \in RoleSet : shown[r] = result[StateKey(r)]

\* C10: in one invocation each role's specialist is called at most once
\* (exactly once by the time the workflow ends), and once a role's call has
\* returned, the response stored for the role is not changed by a later step.
C10_CalledOnce ==
    [][\A r \in RoleSet :
          /\ calls'[r] <= 1
          /\ (pc' = "END" => calls'[r] = 1)
          /\ (calls[r] >= 1 /\ running # r) =>
                 state'[StateKey(r)] = state[StateKey(r)]]_vars

-----------------------------------------------------------------------------
(* The orchestrator is not in use (the specifications of the other          *)
(* components start here)                                                    *)

OrchOff ==
    /\ query = [kind |-> "none", chars |-> <<>>]
    /\ pc = "off"
    /\ state = EmptyMap
    /\ step = 0
    /\ running = "none"
    /\ calls = [r \in RoleSet |-> 0]
    /\ outcome = [r \in RoleSet |-> "none"]
    /\ searches = 0
    /\ genCalls = 0
    /\ consolidations = 0
    /\ synthCalls = 0
    /\ synthErr = <<>>
    /\ result = EmptyMap
    /\ raised = FALSE
    /\ workflowFailed = FALSE
    /\ shown = EmptyMap

-----------------------------------------------------------------------------
(* Free-text chunking: DocumentProcessor._chunk_text *)

MaxTextLen == 6

MaxChunkSize == 3

TextChars == {"a", "b"}

Texts == UNION {[1..n -> TextChars] : n \in 0..MaxTextLen}

\* Python slice text[lo:hi] for 0 <= lo <= hi <= len(text)
Slice(text, lo, hi) == SubSeq(text, lo + 1, hi)

\* end = start + chunk_size, clipped to the length of the text
chunk_end(start, size, length) ==
    IF start + size > length THEN length ELSE start + size

next_start_no_overlap(end, overlap) == end

\* a next start that is one character late when there is an overlap
next_start_one_late(end, overlap) ==
    IF overlap = 0 THEN end ELSE end - overlap + 1

\* start = end - overlap, clipped at 0
next_start(end, overlap) ==
    IF end - overlap < 0 THEN 0 ELSE end - overlap

\* the arguments of one call: any text, chunk_size > overlap >= 0
InitChunk ==
    /\ OrchOff
    /\ cpc = "loop"
    /\ ctext \in Texts
    /\ csize \in 1..MaxChunkSize
    /\ coverlap \in 0..(csize - 1)
    /\ cstart = 0
    /\ cchunks = <<>>
    /\ GateOff
    /\ StoreOff
    /\ TableOff
    /\ IngestOff
    /\ PageOff

\* one iteration of `while start < text_length`
ChunkIter ==
    /\ cpc = "loop"
    /\ cstart < Len(ctext)
    /\ LET end == chunk_end(cstart, csize, Len(ctext)) IN
         /\ cchunks' = Append(cchunks, Slice(ctext, cstart, end))
         /\ IF end = Len(ctext)
            THEN /\ cpc' = "done"
                 /\ cstart' = cstart
            ELSE /\ cpc' = "loop"
                 /\ cstart' = next_start(end, coverlap)
    /\ UNCHANGED <<ctext, csize, coverlap>>
    /\ UNCHANGED <<vars, gvars, svars, tvars, ivars, pvars>>

\* the loop condition is false: return chunks
ChunkExit ==
    /\ cpc = "loop"
    /\ cstart >= Len(ctext)
    /\ cpc' = "done"
    /\ UNCHANGED <<ctext, csize, coverlap, cstart, cchunks>>
    /\ UNCHANGED <<vars, gvars, svars, tvars, ivars, pvars>>

NextChunk ==
    \/ ChunkIter
    \/ ChunkExit

SpecChunk == InitChunk /\ [][NextChunk]_allvars

\* the part of a chunk that follows its first n characters
DropFirst(c, n) == SubSeq(c, n + 1, Len(c))

RECURSIVE Reassemble(_, _)
\* the first chunk followed by every later chunk without its first n characters
Reassemble(cs, n) ==
    IF cs = <<>> THEN <<>>
    ELSE IF Len(cs) = 1 THEN cs[1]
    ELSE Reassemble(SubSeq(cs, 1, Len(cs) - 1), n) \o DropFirst(cs[Len(cs)], n)

\* C20: for every text and every chunk_size > overlap >= 0, the first chunk
\* followed by each later chunk without its first `overlap` characters is the
\* original text, and the empty text yields zero chunks.
C20_ChunkRoundTrip ==
    cpc = "done" =>
        /\ Reassemble(cchunks, coverlap) = ctext
        /\ ctext = <<>> => cchunks = <<>>

C20_Witness ==
    /\ cpc = "done"
    /\ Len(cchunks) >= 3
    /\ coverlap > 0
    /\ Len(cchunks[Len(cchunks)]) < csize
    /\ Reassemble(cchunks, coverlap) = ctext

-----------------------------------------------------------------------------
(* Embedding gateway: get_bedrock_embedding and _get_fallback_embedding *)

\* max_retries (default argument; no caller passes another value)
MaxRetries == 5

\* dimension of the vectors of the remote model amazon.titan-embed-text-v1
RemoteDim == 1536

\* dimension of the local model all-MiniLM-L6-v2 and of the zero vector
FallbackDim == 384

\* cap of the backoff delay, in seconds
BackoffCap == 60

\* random.uniform(0, 1), at its two ends
Jitter == {0, 1}

GateTexts == {"t1", "t2"}

\* what one remote attempt can end with: a non-empty embedding, an empty
\* embedding, or an exception of the service
RemoteOutcomes == {"success", "empty", "throttling", "denied", "other"}

\* the marker substrings that str(e) of a failed attempt contains; an empty
\* embedding raises ValueError("Empty embedding received")
Markers(o) ==
    CASE o = "throttling" -> {"ThrottlingException"}
      [] o = "denied" -> {"AccessDenied"}
      [] OTHER -> {}

remote_vector(t) == [dim |-> RemoteDim, origin |-> "remote", text |-> t]

local_vector(t) == [dim |-> FallbackDim, origin |-> "local", text |-> t]

\* [0.0] * 384
zero_vector == [dim |-> FallbackDim, origin |-> "zero", text |-> ""]

RECURSIVE Pow2(_)
Pow2(n) == IF n = 0 THEN 1 ELSE 2 * Pow2(n - 1)

\* min(2 ** attempt + random.uniform(0, 1), 60)
backoff_delay(attempt, j) ==
    IF Pow2(attempt) + j < BackoffCap THEN Pow2(attempt) + j ELSE BackoffCap

after_failure_retry_denied(markers, attempt) ==
    IF "ThrottlingException" \in markers /\ attempt < MaxRetries - 1 THEN "continue"
    ELSE IF "AccessDenied" \in markers /\ attempt < MaxRetries - 1 THEN "continue"
    ELSE "break"

\* the except branch of the retry loop
after_failure(markers, attempt) ==
    IF "ThrottlingException" \in markers /\ attempt < MaxRetries - 1 THEN "continue"
    ELSE IF "AccessDenied" \in markers THEN "break"
    ELSE "break"

remote_step_no_return(o, attempt) ==
    IF o = "success" THEN "continue" ELSE after_failure(Markers(o), attempt)

\* the body of the retry loop: return, continue or break
remote_step(o, attempt) ==
    IF o = "success" THEN "return" ELSE after_failure(Markers(o), attempt)

fallback_embedding_zero_only(t, l) == zero_vector

fallback_embedding_no_last_resort(t, l) ==
    IF l = "ok" THEN local_vector(t) ELSE NoVec

\* _get_fallback_embedding: the local model, or the zero vector when it fails
fallback_embedding(t, l) ==
    IF l = "ok" THEN local_vector(t) ELSE zero_vector

\* every vector get_bedrock_embedding can return for a text
GatewayVectors(t) ==
    {remote_vector(t)} \cup {fallback_embedding(t, l) : l \in {"ok", "fail"}}

InitGate ==
    /\ OrchOff
    /\ ChunkOff
    /\ StoreOff
    /\ TableOff
    /\ IngestOff
    /\ PageOff
    /\ gpc = "idle" /\ gtext = "" /\ gattempt = 0 /\ glog = <<>> /\ gwaits = <<>>
    /\ glocal = "none" /\ gvec = NoVec /\ gdims = {}

\* get_bedrock_embedding is called
GateCall ==
    /\ gpc = "idle"
    /\ gtext' \in GateTexts
    /\ gpc' = "loop"
    /\ gattempt' = 0
    /\ glog' = <<>>
    /\ gwaits' = <<>>
    /\ glocal' = "none"
    /\ gvec' = NoVec
    /\ UNCHANGED gdims
    /\ UNCHANGED <<vars, cvars, svars, tvars, ivars, pvars>>

\* one iteration of `for attempt in range(max_retries)`
RemoteAttempt ==
    /\ gpc = "loop"
    /\ gattempt < MaxRetries
    /\ IF gattempt > 0
       THEN \E j \in Jitter : gwaits' = Append(gwaits, backoff_delay(gattempt, j))
       ELSE gwaits' = gwaits
    /\ \E o \in RemoteOutcomes :
         /\ glog' = Append(glog, o)
         /\ LET todo == remote_step(o, gattempt) IN
              /\ gpc' = CASE todo = "return" -> "done"
                          [] todo = "break" -> "fallback"
                          [] todo = "continue" ->
                               IF gattempt + 1 < MaxRetries THEN "loop" ELSE "fallback"
              /\ gattempt' = IF todo = "continue" THEN gattempt + 1 ELSE gattempt
              /\ gvec' = IF todo = "return" THEN remote_vector(gtext) ELSE gvec
    /\ UNCHANGED <<gtext, glocal, gdims>>
    /\ UNCHANGED <<vars, cvars, svars, tvars, ivars, pvars>>

\* the remote attempts ended without a vector: _get_fallback_embedding
Fallback ==
    /\ gpc = "fallback"
    /\ \E l \in {"ok", "fail"} :
         /\ glocal' = l
         /\ gvec' = fallback_embedding(gtext, l)
    /\ gpc' = "done"
    /\ UNCHANGED <<gtext, gattempt, glog, gwaits, gdims>>
    /\ UNCHANGED <<vars, cvars, svars, tvars, ivars, pvars>>

\* the caller receives the vector; the gateway is ready for the next call
GateReturn ==
    /\ gpc = "done"
    /\ gdims' = gdims \cup {gvec.dim}
    /\ gpc' = "idle"
    /\ UNCHANGED <<gtext, gattempt, glog, gwaits, glocal, gvec>>
    /\ UNCHANGED <<vars, cvars, svars, tvars, ivars, pvars>>

NextGate ==
    \/ GateCall
    \/ RemoteAttempt
    \/ Fallback
    \/ GateReturn

SpecGate == InitGate /\ [][NextGate]_allvars

\* C11: the embedding gateway never raises: whatever the remote attempts and
\* the local model end with, the call goes on until it returns, and the vector
\* it returns is non-empty.
C11_GatewayTotal ==
    /\ gpc \in {"loop", "fallback"} => ENABLED NextGate
    /\ gpc = "done" =>
         /\ gvec # NoVec
         /\ gvec.dim > 0
         /\ gvec \in GatewayVectors(gtext)

C11_Witness ==
    /\ gpc = "done"
    /\ Len(glog) = MaxRetries
    /\ \A i \in 1..Len(glog) : glog[i] = "throttling"
    /\ glocal = "fail"
    /\ gvec = zero_vector

\* C12: every vector the gateway returns, from the remote capability, from
\* the local model or as the zero vector, has the same dimension (the fixed
\* dimension of an index built through the same gateway).
C12_UniformDimension ==
    \A d1, d2 \in gdims \cup (IF gpc = "done" THEN {gvec.dim} ELSE {}) : d1 = d2

\* C13: one call makes at most 5 remote attempts, and a successful attempt is
\* the last thing the call does: no attempt and no fallback follows it, and
\* its vector is the result.
C13_ReturnOnSuccess ==
    /\ Len(glog) <= 5
    /\ \A i \in 1..Len(glog) :
         glog[i] = "success" =>
             /\ i = Len(glog)
             /\ gpc \in {"done", "idle"}
             /\ glocal = "none"
             /\ gvec = remote_vector(gtext)

C13_Witness ==
    /\ gpc = "done"
    /\ Len(glog) = 5
    /\ glog[5] = "success"
    /\ gvec = remote_vector(gtext)

\* the i-th remote attempt of the call was, or is about to be, followed by
\* another remote attempt
Retried(i) == i < Len(glog) \/ (i = Len(glog) /\ gpc = "loop")

\* C14: a failed remote attempt is followed by another remote attempt if and
\* only if it failed with a throttling signal and fewer than 5 attempts have
\* been made; after any other failure the call goes to the local fallback.
C14_RetryOnlyThrottling ==
    \A i \in 1..Len(glog) :
        glog[i] # "success" =>
            /\ Retried(i) <=> (glog[i] = "throttling" /\ i < 5)
            /\ ~Retried(i) =>
                   \/ gpc = "fallback"
                   \/ gpc \in {"done", "idle"} /\ glocal # "none"

C14_Witness ==
    /\ gpc = "fallback"
    /\ glog = <<"throttling", "throttling", "denied">>

(***************************************************************************)
(* Vector store: build, persistence, load, search, clear and delete of     *)
(* one DocumentProcessor (src/data_loader/document_processor.py).          *)
(***************************************************************************)

\* largest k passed to search_documents
MaxK == 2

\* the text of a record
Content(s) == IF s = "d1" THEN "t1" ELSE "t2"

\* one record: doc['source'], doc['content']
Doc(s) == [source |-> s, content |-> Content(s)]

\* the records of the document collection, in loading order
Corpus == <<Doc("d1"), Doc("d2")>>

\* the documents arguments: the first n records, the empty list included
Batches == {SubSeq(Corpus, 1, n) : n \in 0..Len(Corpus)}

\* the points at which an operation on the storage directory can raise
Stages == {"none", "index", "docs", "meta"}

\* the vectors get_bedrock_embedding can return for the records of a batch
Embeddings(batch) ==
    {vs \in [1..Len(batch) -> UNION {GatewayVectors(t) : t \in GateTexts}] :
        \A i \in 1..Len(batch) : vs[i] \in GatewayVectors(batch[i].content)}

\* `if embedding and len(embedding) > 0`
is_valid(v) == v.dim > 0

\* the items whose vector passed the test, in input order
RECURSIVE keep_valid(_, _)
keep_valid(items, vecs) ==
    IF items = <<>> THEN <<>>
    ELSE (IF is_valid(Head(vecs)) THEN <<Head(items)>> ELSE <<>>)
         \o keep_valid(Tail(items), Tail(vecs))

\* np.array(embeddings).astype('float32') needs rows of one length
homogeneous(embeddings) ==
    \A i \in 1..Len(embeddings) : embeddings[i].dim = embeddings[1].dim

\* how create_vector_store ends: an early return, the conversion raising, or
\* the index being built
build_outcome(batch, embeddings) ==
    IF batch = <<>> \/ embeddings = <<>> THEN "nothing"
    ELSE IF ~homogeneous(embeddings) THEN "raised"
    ELSE "built"

\* _save_vector_store: the three writes in order, inside one try; the first
\* write that raises ends the save, the exception is swallowed
save_vector_store(d, index, docs, failAt) ==
    LET stop == IF ~d.dir \/ index = NoIndex THEN "index" ELSE failAt
        d1 == IF stop = "index" THEN d
              ELSE [d EXCEPT !.index_file = [exists |-> TRUE, index |-> index]]
        d2 == IF stop \in {"index", "docs"} THEN d1
              ELSE [d1 EXCEPT !.documents_file =
                                  [exists |-> TRUE, documents |-> docs]]
    IN  IF stop \in {"index", "docs", "meta"} THEN d2
        ELSE [d2 EXCEPT !.metadata_file =
                            [exists |-> TRUE, total_documents |-> Len(docs)]]

\* load_vector_store: the assignments made before the first read that raises
\* stay; the metadata is read only when its file exists
load_vector_store(index, docs, d, failAt) ==
    IF ~d.index_file.exists \/ ~d.documents_file.exists
    THEN [index |-> index, documents |-> docs, ret |-> "False"]
    ELSE IF failAt = "index"
    THEN [index |-> index, documents |-> docs, ret |-> "False"]
    ELSE IF failAt = "docs"
    THEN [index |-> d.index_file.index, documents |-> docs, ret |-> "False"]
    ELSE [index |-> d.index_file.index,
          documents |-> d.documents_file.documents,
          ret |-> IF failAt = "meta" /\ d.metadata_file.exists
                  THEN "False" ELSE "True"]

\* the position of a vector: the embedding models map different texts to
\* different points, the zero vector is the origin
Coord(v) ==
    IF v.origin = "zero" THEN 0 ELSE IF v.text = "t1" THEN 1 ELSE 3

\* IndexFlatL2: the squared L2 distance
distance(v, w) == (Coord(v) - Coord(w)) * (Coord(v) - Coord(w))

\* the distance index.search reports next to the label -1 (no neighbour)
NoNeighbourDistance == 1000

\* index.search(query_array, n): n (distance, label) pairs, nearest first,
\* filled up with the label -1 when the index holds fewer than n vectors
RECURSIVE faiss_search(_, _, _, _)
faiss_search(index, qvec, slots, n) ==
    IF n = 0 THEN <<>>
    ELSE IF slots = {}
    THEN <<[distance |-> NoNeighbourDistance, idx |-> -1]>>
         \o faiss_search(index, qvec, {}, n - 1)
    ELSE LET dist(i) == distance(qvec, index.vecs[i + 1])
             best == CHOOSE i \in slots : \A j \in slots :
                         dist(i) < dist(j) \/ (dist(i) = dist(j) /\ i <= j)
         IN  <<[distance |-> dist(best), idx |-> best]>>
             \o faiss_search(index, qvec, slots \ {best}, n - 1)

\* self.documents[idx] with Python's negative indexing
py_index(docs, idx) ==
    IF idx < 0 THEN docs[Len(docs) + idx + 1] ELSE docs[idx + 1]

\* 1 / (1 + distance) if distance > 0 else 1.0, as a fraction
similarity_score(d) ==
    IF d > 0 THEN [num |-> 1, den |-> 1 + d] ELSE [num |-> 1, den |-> 1]

\* a >= b for two fractions with positive denominators
score_ge(a, b) == a.num * b.den >= b.num * a.den

\* the loop over indices[0]: one result per label below len(self.documents)
RECURSIVE collect_results(_, _)
collect_results(hits, docs) ==
    IF hits = <<>> THEN <<>>
    ELSE (IF Head(hits).idx < Len(docs)
          THEN <<[document |-> py_index(docs, Head(hits).idx),
                  score |-> similarity_score(Head(hits).distance),
                  distance |-> Head(hits).distance]>>
          ELSE <<>>)
         \o collect_results(Tail(hits), docs)

\* insertion that keeps the list ascending by score
RECURSIVE insert_ascending(_, _)
insert_ascending(sorted, r) ==
    IF sorted = <<>> THEN <<r>>
    ELSE IF score_ge(r.score, Head(sorted).score)
    THEN <<Head(sorted)>> \o insert_ascending(Tail(sorted), r)
    ELSE <<r>> \o sorted

\* results.sort(key=score) without reverse: lowest score first
RECURSIVE sort_by_score_ascending(_)
sort_by_score_ascending(rs) ==
    IF rs = <<>> THEN <<>>
    ELSE insert_ascending(sort_by_score_ascending(SubSeq(rs, 1, Len(rs) - 1)),
                          rs[Len(rs)])

\* insertion that keeps the list descending by score, equal scores in the
\* order they arrived (Python's sort is stable)
RECURSIVE insert_descending(_, _)
insert_descending(sorted, r) ==
    IF sorted = <<>> THEN <<r>>
    ELSE IF score_ge(Head(sorted).score, r.score)
    THEN <<Head(sorted)>> \o insert_descending(Tail(sorted), r)
    ELSE <<r>> \o sorted

\* results.sort(key=lambda x: x['score'], reverse=True)
RECURSIVE sort_by_score(_)
sort_by_score(rs) ==
    IF rs = <<>> THEN <<>>
    ELSE insert_descending(sort_by_score(SubSeq(rs, 1, Len(rs) - 1)),
                           rs[Len(rs)])

\* the number of attempts of search_documents: range(3)
SearchAttempts == 3

\* an attempt raises when the query vector's length is not the index's d
attempt_raises(index, qvec) == qvec.dim # index.d

\* the body of the try of one attempt
search_results(index, docs, qvec, k) ==
    LET n == IF k < Len(docs) THEN k ELSE Len(docs)
        hits == faiss_search(index, qvec, 0..(Len(index.vecs) - 1), n)
    IN  sort_by_score(collect_results(hits, docs))

\* the retry loop without the sleep between attempts
RECURSIVE search_from_no_backoff(_, _, _, _, _, _)
search_from_no_backoff(index, docs, k, run, attempt, waits) ==
    IF attempt >= run.failed
    THEN [results |-> search_results(index, docs, run.qvec, k),
          attempts |-> attempt + 1, waits |-> waits]
    ELSE IF attempt < SearchAttempts - 1
    THEN search_from_no_backoff(index, docs, k, run, attempt + 1, waits)
    ELSE [results |-> <<>>, attempts |-> attempt + 1, waits |-> waits]

\* the retry loop from attempt number `attempt` on; in the first run.failed
\* attempts the gateway returned a vector that makes the attempt raise, in
\* the next one it returned run.qvec
RECURSIVE search_from(_, _, _, _, _, _)
search_from(index, docs, k, run, attempt, waits) ==
    IF attempt >= run.failed
    THEN [results |-> search_results(index, docs, run.qvec, k),
          attempts |-> attempt + 1, waits |-> waits]
    ELSE IF attempt < SearchAttempts - 1
    THEN search_from(index, docs, k, run, attempt + 1,
                     Append(waits, Pow2(attempt)))
    ELSE [results |-> <<>>, attempts |-> attempt + 1, waits |-> waits]

\* search_documents
search_documents(index, docs, k, run) ==
    IF index = NoIndex \/ Len(docs) = 0
    THEN [results |-> <<>>, attempts |-> 0, waits |-> <<>>]
    ELSE search_from(index, docs, k, run, 0, <<>>)

\* what the gateway can return during one search: the number of attempts
\* that raised (possible only if some vector of the gateway raises) and the
\* vector of the attempt that did not; SearchAttempts failures end the search
QueryRuns(index, docs, q) ==
    IF index = NoIndex \/ Len(docs) = 0
    THEN {[failed |-> 0, qvec |-> NoVec]}
    ELSE LET bad == {v \in GatewayVectors(q) : attempt_raises(index, v)}
             good == GatewayVectors(q) \ bad
             fails == IF bad = {} THEN {0} ELSE 0..(SearchAttempts - 1)
         IN  {[failed |-> f, qvec |-> v] : f \in fails, v \in good}
             \cup (IF bad = {} THEN {}
                   ELSE {[failed |-> SearchAttempts, qvec |-> NoVec]})

\* a DocumentProcessor after __init__: nothing in memory, the storage
\* directory exists
InitStore ==
    /\ OrchOff
    /\ ChunkOff
    /\ GateOff
    /\ TableOff
    /\ IngestOff
    /\ PageOff
    /\ sindex = NoIndex
    /\ sdocs = <<>>
    /\ disk = EmptyDisk(TRUE)
    /\ slast = NoOp
    /\ rt = NoTrip

\* create_vector_store: the new index, record list and storage directory and
\* how the call ended, given the vectors the gateway returned
create_vector_store(index, docs, d, batch, vecs, save, failAt) ==
    LET embeddings == keep_valid(vecs, vecs)
        ret == build_outcome(batch, embeddings)
    IN  IF ret # "built"
        THEN [index |-> index, documents |-> docs, disk |-> d, ret |-> ret]
        ELSE LET built == [d |-> embeddings[1].dim, vecs |-> embeddings]
                 valid_documents == keep_valid(batch, vecs)
             IN  [index |-> built, documents |-> valid_documents,
                  disk |-> IF save
                           THEN save_vector_store(d, built, valid_documents,
                                                  failAt)
                           ELSE d,
                  ret |-> ret]

\* create_vector_store(documents, save_locally)
Build ==
    \E batch \in Batches, save \in BOOLEAN, failAt \in Stages :
      \E vecs \in Embeddings(batch) :
        \E r \in {create_vector_store(sindex, sdocs, disk, batch, vecs, save,
                                      failAt)} :
            /\ (r.ret # "built" \/ ~save) => failAt = "none"
            /\ sindex' = r.index
            /\ sdocs' = r.documents
            /\ disk' = r.disk
            /\ slast' = [NoOp EXCEPT !.op = "build", !.ret = r.ret,
                                     !.batch = batch, !.vecs = vecs,
                                     !.save = IF ~save THEN "no"
                                              ELSE IF failAt = "none"
                                              THEN "clean" ELSE "failed"]
            /\ rt' = IF r.ret = "built" /\ save /\ disk.dir /\ failAt = "none"
                     THEN [stage |-> "built", batch |-> batch]
                     ELSE NoTrip
            /\ UNCHANGED <<vars, cvars, gvars, tvars, ivars, pvars>>

\* load_vector_store()
Load ==
    \E failAt \in Stages :
      \E r \in {load_vector_store(sindex, sdocs, disk, failAt)} :
            /\ sindex' = r.index
            /\ sdocs' = r.documents
            /\ slast' = [NoOp EXCEPT !.op = "load", !.ret = r.ret]
            /\ rt' = IF rt.stage = "cleared" /\ r.ret = "True"
                     THEN [rt EXCEPT !.stage = "loaded"] ELSE NoTrip
            /\ UNCHANGED <<disk, vars, cvars, gvars, tvars, ivars, pvars>>

\* clear_vector_store()
Clear ==
    /\ sindex' = NoIndex
    /\ sdocs' = <<>>
    /\ slast' = [NoOp EXCEPT !.op = "clear", !.before = <<disk>>]
    /\ rt' = IF rt.stage = "built" THEN [rt EXCEPT !.stage = "cleared"]
             ELSE NoTrip
    /\ UNCHANGED <<disk, vars, cvars, gvars, tvars, ivars, pvars>>

\* delete_local_store(): shutil.rmtree(self.storage_dir)
Delete ==
    /\ disk' = EmptyDisk(FALSE)
    /\ slast' = [NoOp EXCEPT !.op = "delete", !.before = <<sindex, sdocs>>]
    /\ rt' = NoTrip
    /\ UNCHANGED <<sindex, sdocs, vars, cvars, gvars, tvars, ivars, pvars>>

\* search_documents(query, k)
Search ==
    \E q \in GateTexts, k \in 1..MaxK :
      \E run \in QueryRuns(sindex, sdocs, q) :
        \E r \in {search_documents(sindex, sdocs, k, run)} :
            /\ slast' = [NoOp EXCEPT !.op = "search", !.ret = "returned",
                                     !.q = q, !.k = k,
                                     !.attempts = r.attempts,
                                     !.waits = r.waits,
                                     !.results = r.results]
            /\ rt' = IF rt.stage = "loaded" /\ k = Len(rt.batch)
                     THEN [rt EXCEPT !.stage = "searched"] ELSE NoTrip
            /\ UNCHANGED <<sindex, sdocs, disk, vars, cvars, gvars, tvars, ivars, pvars>>

NextStore == Build \/ Load \/ Clear \/ Delete \/ Search

SpecStore == InitStore /\ [][NextStore]_allvars

\* the source identifiers of a list of records
SourceSet(docs) == {docs[i].source : i \in 1..Len(docs)}

\* C15 (persistence round trip): after a build with persistence of a batch of
\* N >= 1 records that all obtained valid vectors and whose persist wrote all
\* three artifacts, followed by clear, a load that returned True and a search
\* with k = N, the search returned exactly N results whose source identifiers
\* are those of the batch.
C15_RoundTrip ==
    rt.stage = "searched" =>
        /\ Len(slast.results) = Len(rt.batch)
        /\ SourceSet([i \in 1..Len(slast.results) |->
                         slast.results[i].document]) = SourceSet(rt.batch)

\* C16 (index size equals record count): in every reachable state either the
\* in-memory index is absent and the record list is empty, or the number of
\* vectors in the index equals the length of the record list.
C16_IndexMatchesRecords ==
    \/ sindex = NoIndex /\ sdocs = <<>>
    \/ sindex # NoIndex /\ Len(sindex.vecs) = Len(sdocs)

\* C17 (load requires three consistent artifacts): a load that reports
\* success found the index, record-list and metadata artifacts all present
\* and the metadata's record count equal to the length of the loaded list.
C17_LoadRequiresConsistent ==
    (slast.op = "load" /\ slast.ret = "True") =>
        /\ disk.index_file.exists
        /\ disk.documents_file.exists
        /\ disk.metadata_file.exists
        /\ disk.metadata_file.total_documents = Len(sdocs)

\* the positions of a build's vectors that are valid and have the dimension
\* of the first valid vector
Kept(vecs) ==
    LET valid == {i \in 1..Len(vecs) : is_valid(vecs[i])}
        first == CHOOSE i \in valid : \A j \in valid : i <= j
    IN  {i \in valid : vecs[i].dim = vecs[first].dim}

\* the items at the positions of a set, in input order
RECURSIVE AtPositions(_, _, _)
AtPositions(items, keep, i) ==
    IF i > Len(items) THEN <<>>
    ELSE (IF i \in keep THEN <<items[i]>> ELSE <<>>)
         \o AtPositions(items, keep, i + 1)

\* C18 (mismatched vectors are dropped): after a build in which some record
\* obtained a valid vector, the index and the record list hold exactly the
\* records whose vector is valid and has the dimension of the first valid
\* vector; the other records were dropped and the build completed.
C18_MismatchDropped ==
    (slast.op = "build" /\ keep_valid(slast.vecs, slast.vecs) # <<>>) =>
        /\ slast.ret = "built"
        /\ sdocs = AtPositions(slast.batch, Kept(slast.vecs), 1)
        /\ sindex.vecs = AtPositions(slast.vecs, Kept(slast.vecs), 1)
        /\ \A i \in 1..Len(sindex.vecs) : sindex.vecs[i].dim = sindex.d

\* C19 (search results ordered by score): the similarity scores of a returned
\* result list are non-increasing from first to last, and a result with a
\* smaller positive distance never comes after one with a larger distance.
C19_ScoresNonIncreasing ==
    slast.op = "search" =>
        \A i \in 1..Len(slast.results) : \A j \in 1..Len(slast.results) :
            i < j =>
                /\ score_ge(slast.results[i].score, slast.results[j].score)
                /\ ~(/\ 0 < slast.results[j].distance
                     /\ slast.results[j].distance < slast.results[i].distance)

\* a search returned two results at different positive distances
C19_Witness ==
    /\ slast.op = "search"
    /\ Len(slast.results) = 2
    /\ 0 < slast.results[1].distance
    /\ slast.results[1].distance < slast.results[2].distance

\* the current call made a remote attempt that succeeded
RemoteSucceeded == \E i \in 1..Len(glog) : glog[i] = "success"

\* the remote attempts of the current call are over and none succeeded
RemoteEndedWithoutSuccess ==
    /\ glog # <<>>
    /\ ~RemoteSucceeded
    /\ ~Retried(Len(glog))

\* C26 (stage order remote, local, zero): the local fallback model is invoked
\* only after the remote attempts ended without success, the zero vector is
\* returned only after the remote attempts and the local model both failed,
\* and after a successful remote attempt no fallback is invoked.
C26_StagesInOrder ==
    /\ (gpc = "fallback" \/ glocal # "none") => RemoteEndedWithoutSuccess
    /\ (gpc \in {"done", "idle"} /\ gvec = zero_vector) =>
           RemoteEndedWithoutSuccess /\ glocal = "fail"
    /\ RemoteSucceeded => gpc # "fallback" /\ glocal = "none"

\* one permission denial, then the local model failed: the zero vector
C26_Witness ==
    /\ gpc = "done"
    /\ glog = <<"denied">>
    /\ glocal = "fail"
    /\ gvec = zero_vector

\* C25 (consolidation once, after all roles): in one invocation with a
\* non-empty query the consolidation step runs exactly once by the time invoke
\* returns; it has run only if all three roles' responses are collected and no
\* call is in progress, and the workflow ends right after it.
C25_ConsolidatesOnceAtEnd ==
    /\ consolidations <= 1
    /\ consolidations = 1 =>
           /\ \A r \in RoleSet : calls[r] >= 1 /\ state[StateKey(r)] # ""
           /\ running = "none"
           /\ pc \in {"END", "returned", "displayed"}
    /\ (Returned /\ NonEmptyQuery) => consolidations = 1

\* the durable artifacts are gone
NoArtifacts(d) ==
    /\ ~d.index_file.exists
    /\ ~d.documents_file.exists
    /\ ~d.metadata_file.exists

C27_BuildAligned ==
    (slast.op = "build" /\ keep_valid(slast.vecs, slast.vecs) # <<>>) =>
        /\ slast.ret = "built"
        /\ sdocs = keep_valid(slast.batch, slast.vecs)
        /\ Len(sindex.vecs) = Len(sdocs)
        /\ \A i \in 1..Len(sdocs) :
             \E j \in 1..Len(slast.batch) :
                 /\ slast.batch[j] = sdocs[i]
                 /\ sindex.vecs[i] = slast.vecs[j]

\* C28 (results come from slots within bounds): a search returns at most
\* min(k, stored record count) results, and every result is the stored record
\* at a slot i with 0 <= i < stored record count that the index reported as a
\* neighbour of the query vector, with the distance of that slot; the label -1
\* and labels beyond the record list produce no result.
C28_ResultsWithinBounds ==
    slast.op = "search" =>
        /\ Len(slast.results) <= slast.k
        /\ Len(slast.results) <= Len(sdocs)
        /\ \E v \in GatewayVectors(slast.q) :
             \A i \in 1..Len(slast.results) :
                 \E s \in 0..(Len(sdocs) - 1) :
                     /\ s < Len(sindex.vecs)
                     /\ slast.results[i].document = sdocs[s + 1]
                     /\ slast.results[i].distance
                            = distance(v, sindex.vecs[s + 1])

\* the last search found an index and records and every attempt of it failed:
\* its empty result list is the one of the except branch, since no vector of
\* the index's dimension gives an empty list here
AllAttemptsFailed ==
    /\ slast.op = "search"
    /\ sindex # NoIndex /\ Len(sdocs) > 0
    /\ slast.attempts = SearchAttempts
    /\ slast.results = <<>>
    /\ \A v \in GatewayVectors(slast.q) :
         ~attempt_raises(sindex, v) => search_results(sindex, sdocs, v, slast.k) # <<>>

\* C29 as claimed (three waits): a search on a non-empty index whose every
\* attempt fails makes exactly 3 attempts, waits 1 s, 2 s and 4 s after the
\* first, second and third failed attempt, and returns the empty result set;
\* a search on an absent or empty index returns the empty result set with no
\* attempt.
C29_ThreeWaits ==
    slast.op = "search" =>
        /\ slast.ret = "returned"
        /\ (sindex = NoIndex \/ Len(sdocs) = 0) =>
               slast.attempts = 0 /\ slast.waits = <<>> /\ slast.results = <<>>
        /\ (sindex # NoIndex /\ Len(sdocs) > 0) =>
               /\ slast.attempts \in 1..3
               /\ slast.attempts < 3 => slast.waits = SubSeq(<<1, 2, 4>>, 1, slast.attempts - 1)
               /\ AllAttemptsFailed => slast.waits = <<1, 2, 4>>

\* C29 as amended (two waits): a search on a non-empty index whose every
\* attempt fails makes exactly 3 attempts, waits 1 s after the first and 2 s
\* after the second failed attempt, does not wait after the third, and returns
\* the empty result set without raising; a search on an absent or empty index
\* returns the empty result set with no attempt.
C29_TwoWaits ==
    slast.op = "search" =>
        /\ slast.ret = "returned"
        /\ (sindex = NoIndex \/ Len(sdocs) = 0) =>
               slast.attempts = 0 /\ slast.waits = <<>> /\ slast.results = <<>>
        /\ (sindex # NoIndex /\ Len(sdocs) > 0) =>
               /\ slast.attempts \in 1..3
               /\ slast.waits = SubSeq(<<1, 2>>, 1, slast.attempts - 1)
               /\ AllAttemptsFailed => slast.waits = <<1, 2>>

\* three attempts of a search on a loaded index failed
C29_Witness ==
    /\ AllAttemptsFailed
    /\ Len(sdocs) = 2
    /\ slast.waits = <<1, 2>>

\* C30 (a persisted build can be loaded): after a build with persistence that
\* obtained a valid vector and completed, and whose writes met no I/O failure,
\* a following load without I/O failure succeeds and yields the record list
\* just built, whatever build, clear and delete operations came before.
C30_BuildThenLoad ==
    (slast.op = "build" /\ slast.ret = "built" /\ slast.save = "clean") =>
        /\ load_vector_store(NoIndex, <<>>, disk, "none").ret = "True"
        /\ load_vector_store(NoIndex, <<>>, disk, "none").documents = sdocs
        /\ load_vector_store(NoIndex, <<>>, disk, "none").index = sindex

(***************************************************************************)
(* Tabular ingestion: DocumentProcessor.load_csv_documents with its four   *)
(* parsing strategies and the raw-text fallback.                           *)
(***************************************************************************)

\* largest number of columns of a file, largest number of data rows of a
\* file that has rows with an extra field, and largest number of data rows
\* of a file whose rows are all well-formed
MaxCols == 2
MaxRows == 3
MaxLongRows == 52

\* a column holds numbers or text
ColumnTypes == {"num", "str"}

\* a data row has as many fields as the header, or one extra field
RowKinds == {"ok", "extra"}

\* sequences over S of a length from lo to hi
SeqsOf(S, lo, hi) == UNION {[1..n -> S] : n \in lo..hi}

\* the data rows of a file: the first row is well-formed, so that an extra
\* field is a defect of the row that has it
RowLists ==
    {rs \in SeqsOf(RowKinds, 0, MaxRows) : rs # <<>> => rs[1] = "ok"}
    \cup {[i \in 1..n |-> "ok"] : n \in (MaxRows + 1)..MaxLongRows}

\* f.read(5000)
RawPrefixLimit == 5000

\* the number of characters of a file that has a header line: below, at and
\* above the limit of the raw-text fallback
FileSizes == {RawPrefixLimit - 1, RawPrefixLimit, RawPrefixLimit + 1}

\* the files at csv_path: missing, unreadable, zero-length, or a header line
\* and data rows, in UTF-8 ("text") or with bytes that are not UTF-8
\* ("latin1"); dup: the header line has the same column name twice
CsvFiles ==
    {[kind |-> k, columns |-> <<>>, rows |-> <<>>, dup |-> FALSE, chars |-> 0] :
        k \in {"missing", "unreadable", "empty"}}
    \cup {f \in [kind : {"text", "latin1"},
                 columns : SeqsOf(ColumnTypes, 1, MaxCols),
                 rows : RowLists,
                 dup : BOOLEAN,
                 chars : FileSizes] :
            f.dup => Len(f.columns) >= 2}

\* a DataFrame with the given columns and source rows; dup: two of its
\* columns have the same name
Table(cs, rs, dup) == [parsed |-> TRUE, columns |-> cs, rows |-> rs, dup |-> dup]

\* pd.DataFrame()
EmptyFrame == Table(<<>>, <<>>, FALSE)

\* df.empty
is_empty(df) == Len(df.columns) = 0 \/ Len(df.rows) = 0

\* what a strategy ends with
Raises == [raised |-> TRUE, table |-> NoTable]
Returns(df) == [raised |-> FALSE, table |-> df]

\* the numbers of the data rows of a kind, in file order
RECURSIVE RowsOfKind(_, _, _)
RowsOfKind(rs, kinds, i) ==
    IF i > Len(rs) THEN <<>>
    ELSE (IF rs[i] \in kinds THEN <<i>> ELSE <<>>) \o RowsOfKind(rs, kinds, i + 1)

\* some data row has more fields than the header
HasBadRow(f) == \E i \in 1..Len(f.rows) : f.rows[i] = "extra"

\* pandas cannot read the file at all: no such access, no columns, or bytes
\* that are not UTF-8
Unparsable(f) == f.kind \in {"unreadable", "empty", "latin1"}

\* strategy 1: pd.read_csv(csv_path)
read_csv_strict(f) ==
    IF Unparsable(f) \/ HasBadRow(f) THEN Raises
    ELSE Returns(Table(f.columns, RowsOfKind(f.rows, RowKinds, 1), FALSE))

\* strategy 2: pd.read_csv(csv_path, sep=None, engine='python')
read_csv_sniff(f) ==
    IF Unparsable(f) \/ HasBadRow(f) THEN Raises
    ELSE Returns(Table(f.columns, RowsOfKind(f.rows, RowKinds, 1), FALSE))

\* strategy 3: pd.read_csv(csv_path, on_bad_lines='skip', engine='python')
read_csv_skip(f) ==
    IF Unparsable(f) THEN Raises
    ELSE Returns(Table(f.columns, RowsOfKind(f.rows, {"ok"}, 1), FALSE))

\* `if i < 100`: the manual parse reads the header line and 99 data rows
ManualLineLimit == 100

\* the first n elements of a sequence
Head_(s, n) == SubSeq(s, 1, IF Len(s) < n THEN Len(s) ELSE n)

\* strategy 4: _manual_csv_parse; every field is text, a repeated column
\* name stays repeated, and any exception (the open, or pd.DataFrame on rows
\* longer than the header) is swallowed
manual_csv_parse(f) ==
    IF f.kind \in {"unreadable", "empty"} THEN Returns(EmptyFrame)
    ELSE IF \E i \in 1..Len(Head_(f.rows, ManualLineLimit - 1)) :
                f.rows[i] = "extra"
    THEN Returns(EmptyFrame)
    ELSE Returns(Table([c \in 1..Len(f.columns) |-> "str"],
                       Head_(RowsOfKind(f.rows, RowKinds, 1),
                             ManualLineLimit - 1),
                       f.dup))

\* the number of strategies
StrategyCount == 4

\* strategies[i]()
strategy(i, f) ==
    CASE i = 0 -> read_csv_strict(f)
      [] i = 1 -> read_csv_sniff(f)
      [] i = 2 -> read_csv_skip(f)
      [] OTHER -> manual_csv_parse(f)

\* how an ended strategy is recorded
OutcomeOf(out) ==
    IF out.raised THEN "raised"
    ELSE IF is_empty(out.table) THEN "empty" ELSE "table"

\* the strategy loop goes on to the next strategy (the except branch) or
\* ends (the break)
loop_continues(out) == out.raised

\* the row-block parameters
BlockThreshold == 20
BlockSize == 10
BlockRowCap == 50

\* the content of one representation
Representation(kind, column, rows) == [kind |-> kind, column |-> column, rows |-> rows]

\* the data chunks of a table with more than BlockThreshold rows
RECURSIVE RowBlocks(_, _)
RowBlocks(rows, i) ==
    IF i >= Len(rows) \/ i >= BlockRowCap THEN <<>>
    ELSE <<Representation("rows", 0,
                    SubSeq(rows, i + 1,
                           IF i + BlockSize < Len(rows) THEN i + BlockSize
                           ELSE Len(rows)))>>
         \o RowBlocks(rows, i + BlockSize)

\* the list representations: summary, columns, statistics, data
representations(df) ==
    <<Representation("summary", 0, <<>>)>>
    \o [c \in 1..Len(df.columns) |-> Representation("column", c, <<>>)]
    \o (IF \E c \in 1..Len(df.columns) : df.columns[c] = "num"
        THEN <<Representation("statistics", 0, <<>>)>> ELSE <<>>)
    \o (IF Len(df.rows) > BlockThreshold THEN RowBlocks(df.rows, 0)
        ELSE <<Representation("rows", 0,
                        SubSeq(df.rows, 1,
                               IF Len(df.rows) < BlockThreshold
                               THEN Len(df.rows) ELSE BlockThreshold))>>)

\* ['summary', 'column_wise', 'statistics', 'data_chunk'][min(i, 3)]
RepresentationTypes == <<"summary", "column_wise", "statistics", "data_chunk">>
representation_type(i) == RepresentationTypes[(IF i < 3 THEN i ELSE 3) + 1]

\* the records made from the representations of a table
csv_records(df) ==
    LET reps == representations(df)
    IN  [n \in 1..Len(reps) |->
            [source |-> <<"rep", n>>,
             content |-> reps[n],
             type |-> "csv",
             representation_type |-> representation_type(n - 1),
             total_rows |-> Len(df.rows),
             total_columns |-> Len(df.columns)]]

\* a raw-text fallback that reads the whole file
load_csv_as_raw_text_whole(f) ==
    IF f.kind = "unreadable" THEN <<>>
    ELSE <<[source |-> <<"raw", 0>>,
            content |-> [kind |-> "raw", marker |-> TRUE, chars |-> f.chars],
            type |-> "csv",
            representation_type |-> "raw_text"]>>

\* _load_csv_as_raw_text: one record whose content is the marker "Raw CSV
\* content (first 5000 chars): " and the first characters of the file, or no
\* record when the file cannot be read
load_csv_as_raw_text(f) ==
    IF f.kind = "unreadable" THEN <<>>
    ELSE <<[source |-> <<"raw", 0>>,
            content |-> [kind |-> "raw", marker |-> TRUE,
                         chars |-> IF f.chars < RawPrefixLimit THEN f.chars
                                   ELSE RawPrefixLimit],
            type |-> "csv",
            representation_type |-> "raw_text"]>>

\* building the representations raises: df[column] is a DataFrame, which has
\* no dtype, when the column name occurs twice
representations_raise(df) == df.dup

\* load_csv_documents is called with the path of one file
InitCsv ==
    /\ OrchOff
    /\ ChunkOff
    /\ GateOff
    /\ StoreOff
    /\ IngestOff
    /\ PageOff
    /\ table \in {[TableIdle EXCEPT !.pc = "start", !.file = f] : f \in CsvFiles}

\* `if not os.path.exists(csv_path): return csv_docs`
CsvOpen ==
    /\ tpc = "start"
    /\ table' = [table EXCEPT
                    !.pc = IF tfile.kind = "missing" THEN "done" ELSE "loop"]
    /\ UNCHANGED <<vars, cvars, gvars, svars, ivars, pvars>>

\* one iteration of `for i, strategy in enumerate(strategies)`
CsvStrategy ==
    /\ tpc = "loop"
    /\ ti < StrategyCount
    /\ \E out \in {strategy(ti, tfile)} :
         table' = [table EXCEPT
                      !.tried = Append(ttried, [strategy |-> ti + 1,
                                                outcome |-> OutcomeOf(out)]),
                      !.i = IF loop_continues(out) THEN ti + 1 ELSE ti,
                      !.pc = IF loop_continues(out) /\ ti + 1 < StrategyCount
                             THEN "loop" ELSE "after",
                      !.df = IF loop_continues(out) THEN tdf ELSE out.table]
    /\ UNCHANGED <<vars, cvars, gvars, svars, ivars, pvars>>

\* after the loop: the raw-text fallback, or the records of the table, or
\* the raw-text fallback of the outer except
CsvFinish ==
    /\ tpc = "after"
    /\ table' = [table EXCEPT
                    !.docs = IF tdf = NoTable \/ is_empty(tdf)
                             THEN load_csv_as_raw_text(tfile)
                             ELSE IF representations_raise(tdf)
                             THEN load_csv_as_raw_text(tfile)
                             ELSE csv_records(tdf),
                    !.pc = "done"]
    /\ UNCHANGED <<vars, cvars, gvars, svars, ivars, pvars>>

NextCsv == CsvOpen \/ CsvStrategy \/ CsvFinish

SpecCsv == InitCsv /\ [][NextCsv]_allvars

\* the strategy loop of load_csv_documents has ended
LoopEnded == tpc = "after" \/ (tpc = "done" /\ tfile.kind # "missing")

\* C21: the parsing strategies are tried in the fixed order strict, sniffing,
\* skip-bad-lines, manual; every strategy before the last one tried raised or
\* gave an empty table, the table used is the first non-empty one, and the
\* loop ends without a table only after all four strategies were tried.
C21_FirstNonEmptyWins ==
    LoopEnded =>
        /\ ttried # <<>>
        /\ \A j \in 1..Len(ttried) : ttried[j].strategy = j
        /\ \A j \in 1..(Len(ttried) - 1) :
               ttried[j].outcome \in {"raised", "empty"}
        /\ ttried[Len(ttried)].outcome = "table" =>
               tdf.parsed /\ ~is_empty(tdf)
        /\ ttried[Len(ttried)].outcome # "table" =>
               Len(ttried) = StrategyCount

\* the file's only defect is data rows with an extra field
OnlyExtraFields == tfile.kind = "text" /\ HasBadRow(tfile)

\* C22: a file whose only defect is rows with an extra field is still
\* ingested: the first record is the summary and its total_rows is the
\* number of data rows of the file.
C22_MalformedRowsCounted ==
    (tpc = "done" /\ OnlyExtraFields) =>
        /\ tdocs # <<>>
        /\ tdocs[1].representation_type = "summary"
        /\ tdocs[1].total_rows = Len(tfile.rows)

(***************************************************************************)
(* Ingestion of the data directory: step 3 of                              *)
(* StreamlitApp.initialize_system, taken when no saved store was loaded.   *)
(***************************************************************************)

\* largest number of files in the data directory
MaxFiles == 3

\* a file of the data directory, by its extension and by what reading it
\* gives: a PDF gives chunks, no text, or an exception; a CSV gives records
\* or nothing (load_csv_documents returns [])
DataFiles ==
    {[ext |-> "pdf", gives |-> g] : g \in {"chunks", "no_text", "error"}}
    \cup {[ext |-> "csv", gives |-> g] : g \in {"records", "nothing"}}

\* os.listdir(data_dir)
Listings == SeqsOf(DataFiles, 0, MaxFiles)

\* the records made from the file at position i of the listing
RecordsOf(files, i) ==
    IF files[i].gives \in {"chunks", "records"}
    THEN <<[original_file |-> i, type |-> files[i].ext]>>
    ELSE <<>>

\* load_csv_documents(csv_path): the records of the file, or []
load_csv_documents(files, i) == RecordsOf(files, i)

\* the part of one PDF in load_pdf_documents: its chunks, or nothing when it
\* has no text or when reading it raised (the except of the loop body)
pdf_chunks(files, i) == RecordsOf(files, i)

\* step 3 starts with the data directory missing, or with some listing
InitIngest ==
    /\ OrchOff
    /\ ChunkOff
    /\ GateOff
    /\ StoreOff
    /\ TableOff
    /\ PageOff
    /\ ingest \in
         {[IngestIdle EXCEPT !.pc = "start"]}
         \cup {[IngestIdle EXCEPT !.pc = "start", !.dir = TRUE, !.files = fs] :
                 fs \in Listings}

\* `if not os.path.exists(data_dir): return False`, else the listing is read
IngestStart ==
    /\ ipc = "start"
    /\ ingest' = IF idir
                 THEN [ingest EXCEPT !.pc = "pdfs", !.next = 1]
                 ELSE [ingest EXCEPT !.pc = "done", !.ret = "false"]
    /\ UNCHANGED <<vars, cvars, gvars, svars, tvars, pvars>>

\* load_pdf_documents: one iteration of `for filename in os.listdir(...)`
IngestPdf ==
    /\ ipc = "pdfs"
    /\ inext <= Len(ifiles)
    /\ ingest' = [ingest EXCEPT
                    !.pdf_docs = IF ifiles[inext].ext = "pdf"
                                 THEN ipdf_docs \o pdf_chunks(ifiles, inext)
                                 ELSE ipdf_docs,
                    !.next = inext + 1]
    /\ UNCHANGED <<vars, cvars, gvars, svars, tvars, pvars>>

\* load_pdf_documents returns; the CSV loop starts
IngestPdfEnd ==
    /\ ipc = "pdfs"
    /\ inext > Len(ifiles)
    /\ ingest' = [ingest EXCEPT !.pc = "csvs", !.next = 1]
    /\ UNCHANGED <<vars, cvars, gvars, svars, tvars, pvars>>

\* one iteration of `for csv_file in csv_files`: csv_docs is assigned, and
\* the loop is left at the first file that gives records
IngestCsv ==
    /\ ipc = "csvs"
    /\ inext <= Len(ifiles)
    /\ IF ifiles[inext].ext # "csv"
       THEN ingest' = [ingest EXCEPT !.next = inext + 1]
       ELSE \E docs \in {load_csv_documents(ifiles, inext)} :
              ingest' = IF docs # <<>>
                        THEN [ingest EXCEPT !.csv_docs = docs,
                                            !.csv_loaded = TRUE,
                                            !.pc = "build"]
                        ELSE [ingest EXCEPT !.csv_docs = docs,
                                            !.next = inext + 1]
    /\ UNCHANGED <<vars, cvars, gvars, svars, tvars, pvars>>

\* the CSV loop ends without a break
IngestCsvEnd ==
    /\ ipc = "csvs"
    /\ inext > Len(ifiles)
    /\ ingest' = [ingest EXCEPT !.pc = "build"]
    /\ UNCHANGED <<vars, cvars, gvars, svars, tvars, pvars>>

\* all_docs = pdf_docs + csv_docs
all_docs == ipdf_docs \o icsv_docs

\* `if all_docs: create_vector_store(all_docs, save_locally=True)`, whose
\* exception is caught and ends step 3 with False; else `return False`
IngestBuild ==
    /\ ipc = "build"
    /\ IF all_docs # <<>>
       THEN \E built \in BOOLEAN :
              ingest' = [ingest EXCEPT
                            !.pc = "done",
                            !.batch = all_docs,
                            !.ret = IF built THEN "created" ELSE "false"]
       ELSE ingest' = [ingest EXCEPT !.pc = "done", !.ret = "false"]
    /\ UNCHANGED <<vars, cvars, gvars, svars, tvars, pvars>>

NextIngest ==
    \/ IngestStart
    \/ IngestPdf
    \/ IngestPdfEnd
    \/ IngestCsv
    \/ IngestCsvEnd
    \/ IngestBuild

SpecIngest == InitIngest /\ [][NextIngest]_allvars

\* reading the file at position i fails or gives nothing
Unreadable(i) == ifiles[i].gives \in {"error", "nothing"}

\* the records the ingest operation has produced
Produced == {all_docs[n] : n \in 1..Len(all_docs)}

\* C23: when some file of the data directory cannot be read or parsed, the
\* ingest operation still returns (it never raises), and the records of
\* every other file are among the records it produced.
C23_FailuresContained ==
    (ipc = "done" /\ idir /\ \E i \in 1..Len(ifiles) : Unreadable(i)) =>
        /\ iret \in {"created", "false"}
        /\ \A i \in 1..Len(ifiles) :
               \A r \in {RecordsOf(ifiles, i)[n] : n \in 1..Len(RecordsOf(ifiles, i))} :
                   r \in Produced

\* the while loop of _chunk_text is sequential code: an iteration that can
\* run does run
SpecChunkFair == SpecChunk /\ WF_allvars(NextChunk)

RECURSIVE ChunkStart(_)
\* where chunk i starts if every chunk after the first starts `overlap`
\* characters before the end of the chunk before it
ChunkStart(i) ==
    IF i = 1 THEN 0
    ELSE ChunkStart(i - 1) + Len(cchunks[i - 1]) - coverlap

\* the chunks of a finished call have the sizes and the positions of C31
ChunkShape ==
    (cpc = "done" /\ ctext # <<>>) =>
        /\ cchunks # <<>>
        /\ \A i \in 1..(Len(cchunks) - 1) : Len(cchunks[i]) = csize
        /\ Len(cchunks[Len(cchunks)]) \in 1..csize
        /\ \A i \in 1..Len(cchunks) :
               /\ ChunkStart(i) >= 0
               /\ ChunkStart(i) + Len(cchunks[i]) <= Len(ctext)
               /\ cchunks[i] = Slice(ctext, ChunkStart(i),
                                     ChunkStart(i) + Len(cchunks[i]))
        /\ ChunkStart(Len(cchunks)) + Len(cchunks[Len(cchunks)]) = Len(ctext)

\* while the loop runs, its start is the claimed start of the next chunk
LoopStart ==
    (cpc = "loop" /\ cchunks # <<>>) => cstart = ChunkStart(Len(cchunks) + 1)

\* C31: for every non-empty text and every chunk_size > overlap >= 0,
\* chunking terminates, every chunk except the last has exactly chunk_size
\* characters, the last chunk is non-empty with at most chunk_size
\* characters, and every chunk after the first starts exactly `overlap`
\* characters before the end of the chunk before it.
C31_ChunkShapeAndTermination ==
    /\ [](ChunkShape /\ LoopStart)
    /\ (ctext # <<>>) => <>(cpc = "done")

\* a finished call with three chunks of size 3 that overlap by one character,
\* the last of them short
C31_Witness ==
    /\ cpc = "done"
    /\ csize = 3 /\ coverlap = 1
    /\ Len(cchunks) = 3
    /\ Len(cchunks[3]) = 2

\* a strategy gave a non-empty table and load_csv_documents has returned
ParsedNonEmpty == tpc = "done" /\ tdf.parsed /\ ~is_empty(tdf)

\* some column of the table is numeric
HasNumeric(df) == \E c \in 1..Len(df.columns) : df.columns[c] = "num"

\* the number of records before the row blocks
BeforeBlocks(df) == 1 + Len(df.columns) + (IF HasNumeric(df) THEN 1 ELSE 0)

\* C32: for a parsed non-empty table with n columns the records are, in this
\* order, one summary, the n column profiles in column order, one statistics
\* record if and only if some column is numeric, and then the row block(s);
\* no other record is produced.
C32_RepresentationOrder ==
    ParsedNonEmpty =>
        /\ Len(tdocs) > BeforeBlocks(tdf)
        /\ tdocs[1].content.kind = "summary"
        /\ \A c \in 1..Len(tdf.columns) :
               /\ tdocs[1 + c].content.kind = "column"
               /\ tdocs[1 + c].content.column = c
        /\ HasNumeric(tdf) =>
               tdocs[2 + Len(tdf.columns)].content.kind = "statistics"
        /\ \A n \in (BeforeBlocks(tdf) + 1)..Len(tdocs) :
               tdocs[n].content.kind = "rows"

\* the representation kind that names a content
LabelOf(kind) ==
    CASE kind = "summary" -> "summary"
      [] kind = "column" -> "column_wise"
      [] kind = "statistics" -> "statistics"
      [] kind = "rows" -> "data_chunk"
      [] OTHER -> "raw_text"

\* the positions of the records with a label
Labelled(label) ==
    {n \in 1..Len(tdocs) : tdocs[n].representation_type = label}

\* C33: every record produced from a parsed table carries the representation
\* kind of its own content; for a table with n columns whose representations
\* were built, exactly one record is labelled summary and exactly n records
\* are labelled column_wise.
C33_LabelsMatchContent ==
    ParsedNonEmpty =>
        /\ \A n \in 1..Len(tdocs) :
               tdocs[n].representation_type = LabelOf(tdocs[n].content.kind)
        /\ ~representations_raise(tdf) =>
               /\ Cardinality(Labelled("summary")) = 1
               /\ Cardinality(Labelled("column_wise")) = Len(tdf.columns)

\* a record is a row block
IsRowBlock(d) == d.content.kind = "rows"

\* the row blocks of the returned records, in order
RowBlockRecords == SelectSeq(tdocs, IsRowBlock)

\* the smaller of two numbers
Min(a, b) == IF a < b THEN a ELSE b

\* C34: for a parsed table with r rows: if r > 20 there are
\* ceil(min(r, 50) / 10) row blocks, block j (from 0) holds rows 10j+1 to
\* min(10j+10, r) and no row beyond the 50th is in a block; if 1 <= r <= 20
\* there is exactly one row block, which holds all r rows.
C34_RowBlocks ==
    ParsedNonEmpty =>
        LET r == Len(tdf.rows)
            blocks == RowBlockRecords
        IN  IF r > 20
            THEN /\ Len(blocks) = (Min(r, 50) + 9) \div 10
                 /\ \A j \in 0..(Len(blocks) - 1) :
                        blocks[j + 1].content.rows
                            = SubSeq(tdf.rows, 10 * j + 1, Min(10 * j + 10, r))
                 /\ \A j \in 1..Len(blocks) :
                        \A n \in 1..Len(blocks[j].content.rows) :
                            blocks[j].content.rows[n] \in
                                {tdf.rows[m] : m \in 1..Min(r, 50)}
            ELSE /\ Len(blocks) = 1
                 /\ blocks[1].content.rows = tdf.rows

\* load_csv_documents has returned for an existing file for which no
\* strategy gave a non-empty table
NoTableParsed ==
    /\ tpc = "done"
    /\ tfile.kind # "missing"
    /\ tdf = NoTable \/ is_empty(tdf)

\* the returned records are one raw-fallback record: the marker followed by
\* the first characters of the file, 5000 at most
OneRawRecord ==
    /\ Len(tdocs) = 1
    /\ tdocs[1].representation_type = "raw_text"
    /\ tdocs[1].content.kind = "raw"
    /\ tdocs[1].content.marker
    /\ tdocs[1].content.chars = Min(tfile.chars, 5000)

\* C35 as stated: when no strategy yields a non-empty table for an existing
\* file, exactly one record is returned, of the raw-fallback kind, with the
\* marker and at most the first 5000 characters of the file.
C35_OneRawRecord == NoTableParsed => OneRawRecord

\* C35, amended: when no strategy yields a non-empty table for an existing
\* file, the records are exactly one raw-fallback record (the marker and at
\* most the first 5000 characters of the file) if the file can be opened for
\* reading, and no record at all if it cannot.
C35_OneRawRecordIfReadable ==
    NoTableParsed =>
        IF tfile.kind = "unreadable" THEN tdocs = <<>> ELSE OneRawRecord

\* a header-only file longer than the limit went to the raw-text fallback
C35_Witness ==
    /\ NoTableParsed
    /\ tfile.kind = "text"
    /\ tfile.chars > 5000
    /\ Len(tdocs) = 1
    /\ tdocs[1].content.chars = 5000

\* the records of the batch passed to create_vector_store
InBatch == {ibatch[n] : n \in 1..Len(ibatch)}

\* C36: when the system is initialised without a saved store, the batch
\* passed to build holds the records of every CSV file of the data directory
\* that yields records, together with all PDF chunks.
C36_BatchHasEveryCsv ==
    (ipc = "done" /\ ibatch # <<>>) =>
        \A i \in 1..Len(ifiles) :
            \A n \in 1..Len(RecordsOf(ifiles, i)) :
                RecordsOf(ifiles, i)[n] \in InBatch

(***************************************************************************)
(* The page: every render runs main, which constructs a StreamlitApp and   *)
(* calls run; st.session_state is what lasts from one render to the next.  *)
(***************************************************************************)

\* largest number of renders of one browser session
MaxRenders == 4

\* the example queries of the sidebar
ExampleQueries == {"example_0", "example_1", "example_2", "example_3"}

\* how initialize_system can end: False before the DocumentProcessor exists,
\* False after it was created (loading or building the store failed, or the
\* MultiAgentSystem could not be created), False in step 5 after
\* `self.initialized = True`, or True
InitOutcomes == {"no_processor", "no_agents", "no_stats", "ok"}

\* the fields of the application object after initialize_system
app_after(out) ==
    CASE out = "no_processor" -> NewApp
      [] out = "no_agents" ->
            [document_processor |-> TRUE, multi_agent_system |-> FALSE,
             initialized |-> FALSE]
      [] OTHER ->
            [document_processor |-> TRUE, multi_agent_system |-> TRUE,
             initialized |-> TRUE]

\* `self.initialized and self.multi_agent_system`
ready(app) == app.initialized /\ app.multi_agent_system

\* run: the defaults of the session state
session_defaults(s) ==
    [user_query |-> IF s.user_query = "unset" THEN "" ELSE s.user_query,
     system_initialized |-> IF s.system_initialized = "unset" THEN "no"
                            ELSE s.system_initialized]

\* a browser session opens the page
InitPage ==
    /\ OrchOff
    /\ ChunkOff
    /\ GateOff
    /\ StoreOff
    /\ TableOff
    /\ IngestOff
    /\ page = [PageIdle EXCEPT !.pc = "idle"]

\* a render starts: main constructs the application object, run sets the
\* defaults of the session state and calls render_sidebar
PageRun ==
    /\ ppc = "idle"
    /\ prenders < MaxRenders
    /\ page' = [page EXCEPT !.renders = prenders + 1,
                            !.app = NewApp,
                            !.session = session_defaults(psession),
                            !.shown = "none",
                            !.pc = "sidebar"]
    /\ UNCHANGED <<vars, cvars, gvars, svars, tvars, ivars>>

\* render_sidebar of an application that is not ready, with the button
\* "Initialize System" clicked
PageClickInitialize ==
    /\ ppc = "sidebar"
    /\ ~ready(papp)
    /\ page' = [page EXCEPT !.pc = "init"]
    /\ UNCHANGED <<vars, cvars, gvars, svars, tvars, ivars>>

\* `if self.initialize_system(): st.rerun()`; after False the rest of the
\* sidebar and the main content are rendered by the same object
PageInitialize ==
    /\ ppc = "init"
    /\ \E out \in InitOutcomes :
         page' = [page EXCEPT !.app = app_after(out),
                              !.succeeded = (psucceeded \/ out = "ok"),
                              !.pc = IF out = "ok" THEN "idle" ELSE "main"]
    /\ UNCHANGED <<vars, cvars, gvars, svars, tvars, ivars>>

\* render_sidebar with an example button clicked: the query is stored in the
\* session state and st.rerun() ends the render
PageClickExample ==
    /\ ppc = "sidebar"
    /\ \E e \in ExampleQueries :
         page' = [page EXCEPT !.session.user_query = e, !.pc = "idle"]
    /\ UNCHANGED <<vars, cvars, gvars, svars, tvars, ivars>>

\* render_sidebar with no button clicked
PageSidebarEnd ==
    /\ ppc = "sidebar"
    /\ page' = [page EXCEPT !.pc = "main"]
    /\ UNCHANGED <<vars, cvars, gvars, svars, tvars, ivars>>

\* render_main_content: the notice "System not initialized", or the query
\* interface
PageMain ==
    /\ ppc = "main"
    /\ page' = [page EXCEPT
                   !.shown = IF ~papp.initialized \/ ~papp.multi_agent_system
                             THEN "notice" ELSE "interface",
                   !.pc = "idle"]
    /\ UNCHANGED <<vars, cvars, gvars, svars, tvars, ivars>>

NextPage ==
    \/ PageRun
    \/ PageClickInitialize
    \/ PageInitialize
    \/ PageClickExample
    \/ PageSidebarEnd
    \/ PageMain

SpecPage == InitPage /\ [][NextPage]_allvars

\* C37: once initialize_system has succeeded, every later render finds the
\* application ready (initialized true, the multi-agent system present) and
\* shows the query interface, not the notice "System not initialized".
C37_ReadyAfterInitialize ==
    psucceeded =>
        /\ ppc \in {"sidebar", "main"} => ready(papp)
        /\ ppc = "idle" => pshown # "notice"

====
